---------------------------- MODULE Spec2Model ----------------------------
(***************************************************************************)
(* Model of funimpute/outliers.py: the IQR outlier detector, the rule      *)
(* based handling-strategy selector and the analyze_outliers orchestrator. *)
(*                                                                         *)
(* Numbers are exact rationals [k |-> "num", n, d] (d > 0); the two        *)
(* sentinels of the code, numpy's nan and Python's None, are the values    *)
(* NaN and None of the same record shape.  Column cells are integers, the  *)
(* quantile fractions are quarters and the multipliers are halves, so      *)
(* every float operation of the code is exact on the modelled inputs.      *)
(***************************************************************************)
EXTENDS Integers, Sequences, FiniteSets

VARIABLES series, metadata, config, analysis, detected, suggestion, result, pc

vars == <<series, metadata, config, analysis, detected, suggestion, result, pc>>

---------------------------------------------------------------------------
(* Values *)

Num(i) == [k |-> "num", n |-> i, d |-> 1]

RECURSIVE GCD(_, _)
GCD(a, b) == IF b = 0 THEN a ELSE GCD(b, a % b)

\* The rational i/j (j > 0) in lowest terms.
Rat(i, j) ==
    LET g == GCD(IF i < 0 THEN -i ELSE i, j)
    IN  [k |-> "num", n |-> i \div g, d |-> j \div g]

NaN == [k |-> "nan", n |-> 0, d |-> 1]

None == [k |-> "none", n |-> 0, d |-> 1]

IsNum(x) == x.k = "num"

\* Python's x < y on floats: False as soon as one side is nan.
Lt(x, y) == IsNum(x) /\ IsNum(y) /\ x.n * y.d < y.n * x.d

Gt(x, y) == Lt(y, x)

Eq(x, y) == IsNum(x) /\ IsNum(y) /\ x.n * y.d = y.n * x.d

Sub(x, y) == Rat(x.n * y.d - y.n * x.d, x.d * y.d)

Add(x, y) == Rat(x.n * y.d + y.n * x.d, x.d * y.d)

Mul(x, y) == Rat(x.n * y.n, x.d * y.d)

\* Python raises TypeError when None meets a number under < or >.
Raises(x, y) == x.k = "none" \/ y.k = "none"

---------------------------------------------------------------------------
(* detect_outliers_iqr *)

\* series.dropna(): the non-missing cells, order kept.
dropna(s) == SelectSeq(s, IsNum)

\* series.count(): the number of non-missing cells.
count(s) == Cardinality({i \in 1..Len(s) : IsNum(s[i])})

\* The k-th smallest (k from 0) of a non-empty sequence of numbers.
kth(s, k) ==
    CHOOSE v \in {s[i] : i \in 1..Len(s)} :
        /\ Cardinality({i \in 1..Len(s) : Lt(s[i], v)}) <= k
        /\ k < Cardinality({i \in 1..Len(s) : ~Lt(v, s[i])})

\* A quantile that takes the lower of the two closest ranks.
quantile_lower(s, qn, qd) == kth(s, (qn * (Len(s) - 1)) \div qd)

\* Series.quantile(qn/qd), linear interpolation between closest ranks.
quantile(s, qn, qd) ==
    LET pos  == qn * (Len(s) - 1)
        lo   == pos \div qd
        frac == Rat(pos % qd, qd)
        a    == kth(s, lo)
        b    == IF pos % qd = 0 THEN a ELSE kth(s, lo + 1)
    IN  Add(a, Mul(Sub(b, a), frac))

\* A mask that also flags the values on a bound.
is_outlier_inclusive(x, lower_bound, upper_bound) ==
    ~Gt(x, lower_bound) \/ ~Lt(x, upper_bound)

\* The mask (clean_series < lower_bound) | (clean_series > upper_bound).
is_outlier(x, lower_bound, upper_bound) ==
    Lt(x, lower_bound) \/ Gt(x, upper_bound)

detect_outliers_iqr(s, iqr_multiplier) ==
    LET clean_series == dropna(s)
    IN  IF Len(clean_series) = 0
        THEN [outliers |-> <<>>, lower_bound |-> NaN, upper_bound |-> NaN]
        ELSE LET q1  == quantile(clean_series, 1, 4)
                 q3  == quantile(clean_series, 3, 4)
                 iqr == Sub(q3, q1)
                 lower_bound == Sub(q1, Mul(iqr_multiplier, iqr))
                 upper_bound == Add(q3, Mul(iqr_multiplier, iqr))
                 IsOut(x) == is_outlier(x, lower_bound, upper_bound)
             IN  [outliers    |-> SelectSeq(clean_series, IsOut),
                  lower_bound |-> lower_bound,
                  upper_bound |-> upper_bound]

---------------------------------------------------------------------------
(* suggest_outlier_handling *)

LEAVE_AS_IS == "LEAVE_AS_IS"

CAP_TO_BOUNDS == "CAP_TO_BOUNDS"

CONVERT_TO_NAN == "CONVERT_TO_NAN"

OutlierHandling == {LEAVE_AS_IS, CAP_TO_BOUNDS, CONVERT_TO_NAN}

Suggestion(strategy, rationale) ==
    [strategy |-> strategy, rationale |-> rationale, exc |-> ""]

\* The call does not return: the comparison of None with a number raised.
SuggestionRaised ==
    [strategy |-> "", rationale |-> "", exc |-> "TypeError"]

\* A first rule that never matches.
no_outliers_negative(outlier_count) == outlier_count < 0

\* if outlier_count == 0
no_outliers(outlier_count) == outlier_count = 0

\* if outlier_percentage > 0.2
high_percentage(outlier_percentage) == Gt(outlier_percentage, Rat(1, 5))

\* if metadata.min_value is not None or metadata.max_value is not None
has_business_bounds(md) == md.min_value # None \/ md.max_value # None

\* The two comparisons of the business-bounds block, either of which is
\* evaluated only when its declared bound is present.
business_check_raises(a, md) ==
    \/ md.min_value # None /\ Raises(a.lower_bound, md.min_value)
    \/ md.max_value # None /\ Raises(a.upper_bound, md.max_value)

\* A check that forgets the declared minimum.
violates_max_only(a, md) ==
    md.max_value # None /\ Gt(a.upper_bound, md.max_value)

violates_business_rules(a, md) ==
    \/ md.min_value # None /\ Lt(a.lower_bound, md.min_value)
    \/ md.max_value # None /\ Gt(a.upper_bound, md.max_value)

\* if outlier_percentage < config.outlier_threshold:
\*     if metadata.data_type in ['integer', 'float']
low_percentage(outlier_percentage, md, cfg) ==
    /\ Lt(outlier_percentage, cfg.outlier_threshold)
    /\ md.data_type \in {"integer", "float"}

\* A medium band that includes 10% itself.
medium_percentage_inclusive(outlier_percentage) ==
    ~Gt(outlier_percentage, Rat(1, 10))

\* if outlier_percentage < 0.1
medium_percentage(outlier_percentage) == Lt(outlier_percentage, Rat(1, 10))

\* The selector with the business-bounds rule tried before the
\* unique-identifier and categorical rules.
suggest_business_first(a, md, cfg) ==
    IF no_outliers(a.outlier_count)
    THEN Suggestion(LEAVE_AS_IS, "No outliers detected")
    ELSE IF high_percentage(a.outlier_percentage)
    THEN Suggestion(LEAVE_AS_IS, "High outlier percentage")
    ELSE IF has_business_bounds(md) /\ business_check_raises(a, md)
    THEN SuggestionRaised
    ELSE IF has_business_bounds(md) /\ violates_business_rules(a, md)
    THEN Suggestion(CAP_TO_BOUNDS, "Outliers violate business rules")
    ELSE IF md.unique_flag
    THEN Suggestion(LEAVE_AS_IS, "Unique identifier column")
    ELSE IF md.data_type = "categorical"
    THEN Suggestion(LEAVE_AS_IS, "Categorical data")
    ELSE IF low_percentage(a.outlier_percentage, md, cfg)
    THEN Suggestion(CAP_TO_BOUNDS, "Low outlier percentage")
    ELSE IF medium_percentage(a.outlier_percentage)
    THEN Suggestion(CONVERT_TO_NAN, "Medium outlier percentage")
    ELSE Suggestion(LEAVE_AS_IS, "requires manual review")

suggest_outlier_handling(a, md, cfg) ==
    IF no_outliers(a.outlier_count)
    THEN Suggestion(LEAVE_AS_IS, "No outliers detected")
    ELSE IF high_percentage(a.outlier_percentage)
    THEN Suggestion(LEAVE_AS_IS, "High outlier percentage")
    ELSE IF md.unique_flag
    THEN Suggestion(LEAVE_AS_IS, "Unique identifier column")
    ELSE IF md.data_type = "categorical"
    THEN Suggestion(LEAVE_AS_IS, "Categorical data")
    ELSE IF has_business_bounds(md) /\ business_check_raises(a, md)
    THEN SuggestionRaised
    ELSE IF has_business_bounds(md) /\ violates_business_rules(a, md)
    THEN Suggestion(CAP_TO_BOUNDS, "Outliers violate business rules")
    ELSE IF low_percentage(a.outlier_percentage, md, cfg)
    THEN Suggestion(CAP_TO_BOUNDS, "Low outlier percentage")
    ELSE IF medium_percentage(a.outlier_percentage)
    THEN Suggestion(CONVERT_TO_NAN, "Medium outlier percentage")
    ELSE Suggestion(LEAVE_AS_IS, "requires manual review")

---------------------------------------------------------------------------
(* analyze_outliers *)

\* The limit of outlier_values[:10].
StoredOutliers == 10

\* A gate that lets every type but categorical through to detection.
skips_categorical_only(md) == md.data_type = "categorical"

\* if metadata.data_type not in ['integer', 'float']
skips_detection(md) == md.data_type \notin {"integer", "float"}

\* A total that counts the missing cells too: len(series).
total_with_missing(s) == Len(s)

\* total_non_null = series.count()
total_non_null(s) == count(s)

\* outlier_count / total_non_null if total_non_null > 0 else 0.0
percentage(outlier_count, total) ==
    IF total > 0 THEN Rat(outlier_count, total) ELSE Num(0)

\* A dict without the bounds: the selector's .get() then yields None.
outlier_analysis_no_bounds(outlier_count, outlier_percentage, lower_bound, upper_bound) ==
    [outlier_count      |-> outlier_count,
     outlier_percentage |-> outlier_percentage,
     lower_bound        |-> None,
     upper_bound        |-> None]

outlier_analysis_dict(outlier_count, outlier_percentage, lower_bound, upper_bound) ==
    [outlier_count      |-> outlier_count,
     outlier_percentage |-> outlier_percentage,
     lower_bound        |-> lower_bound,
     upper_bound        |-> upper_bound]

\* No truncation: every outlier is stored.
stored_values_all(outlier_values) == outlier_values

\* outlier_values[:10]
stored_values(outlier_values) ==
    SubSeq(outlier_values, 1,
           IF Len(outlier_values) < StoredOutliers
           THEN Len(outlier_values) ELSE StoredOutliers)

OutlierAnalysis(cnt, pct, lb, ub, vals, strategy, rationale, exc) ==
    [outlier_count      |-> cnt,
     outlier_percentage |-> pct,
     lower_bound        |-> lb,
     upper_bound        |-> ub,
     outlier_values     |-> vals,
     handling_strategy  |-> strategy,
     rationale          |-> rationale,
     exc                |-> exc]

analyze_outliers(s, md, cfg) ==
    IF skips_detection(md)
    THEN OutlierAnalysis(0, Num(0), None, None, <<>>, LEAVE_AS_IS,
                         "Non-numeric data type", "")
    ELSE LET det == detect_outliers_iqr(s, cfg.iqr_multiplier)
             outlier_count == Len(det.outliers)
             outlier_percentage == percentage(outlier_count, total_non_null(s))
             sug == suggest_outlier_handling(
                        outlier_analysis_dict(outlier_count, outlier_percentage,
                                              det.lower_bound, det.upper_bound),
                        md, cfg)
         IN  IF sug.exc # ""
             THEN OutlierAnalysis(0, Num(0), None, None, <<>>, "", "", sug.exc)
             ELSE OutlierAnalysis(outlier_count, outlier_percentage,
                                  det.lower_bound, det.upper_bound,
                                  stored_values(det.outliers),
                                  sug.strategy, sug.rationale, "")

---------------------------------------------------------------------------
(* Inputs *)

\* Longest column of SpecIqr, which draws every column up to that length.
MaxLen == 5

\* Largest multiplier of SpecIqr, in halves.
MaxMultHalves == 4

\* SpecAn's columns: any head up to MaxHead cells, then up to MaxFill
\* copies of one value.
MaxHead == 2

MaxFill == 10

\* SpecLong's columns: any base up to MaxBase cells, tiled up to MaxReps
\* times.
MaxBase == 4

MaxReps == 6

\* Largest outlier_count handed to the selector in SpecSel.
MaxCount == 2

Values == {Num(0), Num(1), Num(3)}

Cells == Values \cup {NaN}

Seqs(S, n) == UNION {[1..k -> S] : k \in 0..n}

Fill(v, k) == [i \in 1..k |-> v]

Tile(b, r) == [i \in 1..(Len(b) * r) |-> b[((i - 1) % Len(b)) + 1]]

ShortColumns == Seqs(Cells, MaxLen)

BulkColumns ==
    {h \o Fill(v, k) : h \in Seqs(Cells, MaxHead), v \in Values, k \in 0..MaxFill}

TiledColumns ==
    {Tile(b, r) : b \in Seqs(Cells, MaxBase), r \in 1..MaxReps}

DataTypes == {"integer", "float", "categorical", "other"}

Metadatas(mins, maxs) ==
    [data_type : DataTypes, unique_flag : BOOLEAN,
     min_value : mins, max_value : maxs]

Multipliers == {Rat(h, 2) : h \in 1..MaxMultHalves}

Thresholds == {Rat(5, 100), Rat(10, 100), Rat(15, 100), Rat(25, 100)}

Configs(ms, ts) == [iqr_multiplier : ms, outlier_threshold : ts]

\* The percentages handed to the selector in SpecSel, in hundredths.
PctPoints == {0, 4, 5, 9, 10, 14, 15, 20, 21, 50}

\* The statistical bounds handed to the selector in SpecSel.
BoundPairs ==
    {<<NaN, NaN>>} \cup
    {<<Num(l), Num(u)>> : l \in {-10, 0, 50}, u \in {50, 100, 110}}

\* The dicts handed to the selector in SpecSel: no outlier with any
\* percentage (rule 1 is to win whatever the percentage says), or some
\* outliers with a percentage above zero.
SelAnalyses ==
    {outlier_analysis_dict(cp[1], Rat(cp[2], 100), b[1], b[2]) :
        cp \in {x \in (0..MaxCount) \X PctPoints : x[1] = 0 \/ x[2] > 0},
        b \in BoundPairs}

DefaultMetadata ==
    [data_type |-> "float", unique_flag |-> FALSE,
     min_value |-> None, max_value |-> None]

DefaultConfig == [iqr_multiplier |-> Rat(3, 2), outlier_threshold |-> Rat(5, 100)]

NoAnalysis == outlier_analysis_dict(0, Num(0), NaN, NaN)

NoDetection == [outliers |-> <<>>, lower_bound |-> None, upper_bound |-> None]

NoSuggestion == [strategy |-> "", rationale |-> "", exc |-> ""]

NoResult == OutlierAnalysis(0, Num(0), None, None, <<>>, "", "", "")

---------------------------------------------------------------------------
(* The calls *)

Start(columns, mds, cfgs, as) ==
    /\ series \in columns
    /\ metadata \in mds
    /\ config \in cfgs
    /\ analysis \in as
    /\ detected = NoDetection
    /\ suggestion = NoSuggestion
    /\ result = NoResult
    /\ pc = "call"

\* detect_outliers_iqr(series, config.iqr_multiplier)
DetectIqr ==
    /\ pc = "call"
    /\ detected' = detect_outliers_iqr(series, config.iqr_multiplier)
    /\ pc' = "returned"
    /\ UNCHANGED <<series, metadata, config, analysis, suggestion, result>>

\* suggest_outlier_handling(analysis, metadata, config)
Suggest ==
    /\ pc = "call"
    /\ LET r == suggest_outlier_handling(analysis, metadata, config)
       IN  /\ suggestion' = r
           /\ pc' = IF r.exc = "" THEN "returned" ELSE "raised"
    /\ UNCHANGED <<series, metadata, config, analysis, detected, result>>

\* analyze_outliers(series, metadata, config)
Analyze ==
    /\ pc = "call"
    /\ LET r == analyze_outliers(series, metadata, config)
       IN  /\ result' = r
           /\ pc' = IF r.exc = "" THEN "returned" ELSE "raised"
    /\ UNCHANGED <<series, metadata, config, analysis, detected, suggestion>>

InitIqr ==
    Start(ShortColumns, {DefaultMetadata},
          Configs(Multipliers, {Rat(5, 100)}), {NoAnalysis})

SpecIqr == InitIqr /\ [][DetectIqr]_vars

InitSel ==
    Start({<<>>}, Metadatas({None, Num(0)}, {None, Num(100)}),
          Configs({Rat(3, 2)}, Thresholds), SelAnalyses)

SpecSel == InitSel /\ [][Suggest]_vars

InitAn ==
    Start(BulkColumns, Metadatas({None, Num(1)}, {None, Num(1)}),
          Configs({Rat(1, 1), Rat(3, 2)}, {Rat(5, 100), Rat(15, 100)}),
          {NoAnalysis})

SpecAn == InitAn /\ [][Analyze]_vars

InitLong ==
    Start(TiledColumns,
          [data_type : {"integer", "categorical"}, unique_flag : {FALSE},
           min_value : {None}, max_value : {None}],
          Configs({Rat(1, 2), Rat(3, 2)}, {Rat(5, 100)}), {NoAnalysis})

SpecLong == InitLong /\ [][Analyze]_vars

Init == InitAn

Next == Analyze

Spec == SpecAn

---------------------------------------------------------------------------
(* The contract of the detector, stated on integers: the quartiles times  *)
(* four and the fences times eight, from a sorted copy of the column.     *)

RECURSIVE NonMissing(_)
NonMissing(s) ==
    IF s = <<>> THEN <<>>
    ELSE IF Head(s) = NaN THEN NonMissing(Tail(s))
         ELSE <<Head(s).n>> \o NonMissing(Tail(s))

RECURSIVE InsertSorted(_, _)
InsertSorted(x, t) ==
    IF t = <<>> THEN <<x>>
    ELSE IF x <= Head(t) THEN <<x>> \o t
         ELSE <<Head(t)>> \o InsertSorted(x, Tail(t))

RECURSIVE Ascending(_)
Ascending(xs) ==
    IF xs = <<>> THEN <<>> ELSE InsertSorted(Head(xs), Ascending(Tail(xs)))

\* Four times the q-th quartile (q = 1 or 3) of a non-empty xs.
Quartile4(xs, q) ==
    LET t == Ascending(xs)
        p == q * (Len(xs) - 1)
        i == (p \div 4) + 1
        r == p % 4
    IN  IF r = 0 THEN 4 * t[i] ELSE (4 - r) * t[i] + r * t[i + 1]

Halves(m) == (2 * m.n) \div m.d

\* Eight times Q1 - m*IQR and Q3 + m*IQR, for m = mh/2.
Lower8(xs, mh) ==
    2 * Quartile4(xs, 1) - mh * (Quartile4(xs, 3) - Quartile4(xs, 1))

Upper8(xs, mh) ==
    2 * Quartile4(xs, 3) + mh * (Quartile4(xs, 3) - Quartile4(xs, 1))

RECURSIVE Outside(_, _, _)
Outside(xs, lo8, up8) ==
    IF xs = <<>> THEN <<>>
    ELSE IF 8 * Head(xs) < lo8 \/ 8 * Head(xs) > up8
         THEN <<Num(Head(xs))>> \o Outside(Tail(xs), lo8, up8)
         ELSE Outside(Tail(xs), lo8, up8)

RECURSIVE Differing(_, _)
Differing(xs, c4) ==
    IF xs = <<>> THEN <<>>
    ELSE IF 4 * Head(xs) # c4
         THEN <<Num(Head(xs))>> \o Differing(Tail(xs), c4)
         ELSE Differing(Tail(xs), c4)

IsValue(x, num, den) == IsNum(x) /\ x.n * den = num * x.d

\* C7: detect_outliers_iqr drops the missing cells and returns
\* lower = Q1 - m*IQR, upper = Q3 + m*IQR (linearly interpolated quartiles of
\* the cleaned values) with exactly the cleaned values strictly below lower or
\* strictly above upper, in column order; an empty cleaned column gives no
\* outliers and both bounds nan.
C7_DetectorContract ==
    pc = "returned" =>
        LET xs == NonMissing(series)
            mh == Halves(config.iqr_multiplier)
        IN  IF xs = <<>>
            THEN /\ detected.outliers = <<>>
                 /\ detected.lower_bound = NaN
                 /\ detected.upper_bound = NaN
            ELSE /\ IsValue(detected.lower_bound, Lower8(xs, mh), 8)
                 /\ IsValue(detected.upper_bound, Upper8(xs, mh), 8)
                 /\ detected.outliers = Outside(xs, Lower8(xs, mh), Upper8(xs, mh))

\* A column with a missing cell, a low and a high outlier that are returned
\* high first, as they stand in the column, and a value on no side.
C7_Witness ==
    /\ pc = "returned"
    /\ \E i \in 1..Len(series) : series[i] = NaN
    /\ Len(detected.outliers) = 2
    /\ Lt(detected.outliers[2], detected.lower_bound)
    /\ Gt(detected.outliers[1], detected.upper_bound)
    /\ ~Eq(detected.lower_bound, detected.upper_bound)

\* C9: when the cleaned column has IQR = 0 the bounds are
\* lower = upper = Q1 for every multiplier, and the outliers are exactly the
\* non-missing values different from Q1.
C9_ZeroIqr ==
    (pc = "returned" /\ NonMissing(series) # <<>>
        /\ Quartile4(NonMissing(series), 1) = Quartile4(NonMissing(series), 3)) =>
        LET xs == NonMissing(series)
            q4 == Quartile4(xs, 1)
        IN  /\ IsValue(detected.lower_bound, q4, 4)
            /\ IsValue(detected.upper_bound, q4, 4)
            /\ detected.outliers = Differing(xs, q4)

\* A constant column with one differing value, which is flagged.
C9_Witness ==
    /\ pc = "returned"
    /\ NonMissing(series) = <<1, 1, 1, 1, 3>>
    /\ config.iqr_multiplier = Rat(3, 2)
    /\ detected.outliers = <<Num(3)>>
    /\ Eq(detected.lower_bound, Num(1))
    /\ Eq(detected.upper_bound, Num(1))

---------------------------------------------------------------------------
(* The contract of the selector: the eight rules as a table, the first    *)
(* one whose condition holds deciding.                                     *)

BelowMin(a, md) ==
    /\ md.min_value # None
    /\ a.lower_bound.k = "num"
    /\ a.lower_bound.n * md.min_value.d < md.min_value.n * a.lower_bound.d

AboveMax(a, md) ==
    /\ md.max_value # None
    /\ a.upper_bound.k = "num"
    /\ a.upper_bound.n * md.max_value.d > md.max_value.n * a.upper_bound.d

RuleTable(a, md, cfg) ==
    LET p == a.outlier_percentage
        t == cfg.outlier_threshold
    IN  << <<a.outlier_count = 0, LEAVE_AS_IS>>,
           <<5 * p.n > p.d, LEAVE_AS_IS>>,
           <<md.unique_flag, LEAVE_AS_IS>>,
           <<md.data_type = "categorical", LEAVE_AS_IS>>,
           <<BelowMin(a, md) \/ AboveMax(a, md), CAP_TO_BOUNDS>>,
           <<p.n * t.d < t.n * p.d /\ md.data_type \in {"integer", "float"},
             CAP_TO_BOUNDS>>,
           <<10 * p.n < p.d, CONVERT_TO_NAN>>,
           <<TRUE, LEAVE_AS_IS>> >>

FirstRule(a, md, cfg) ==
    CHOOSE i \in 1..8 :
        /\ RuleTable(a, md, cfg)[i][1]
        /\ \A j \in 1..(i - 1) : ~RuleTable(a, md, cfg)[j][1]

\* C1: suggest_outlier_handling returns the strategy of the first of the
\* eight rules, in their fixed order, whose condition holds; in particular a
\* percentage above 20% gives LEAVE_AS_IS whatever the type and bounds, and
\* a unique-identifier column with outliers gives LEAVE_AS_IS even when a
\* business bound is violated.
C1_FirstMatchWins ==
    /\ pc # "raised"
    /\ pc = "returned" =>
        /\ suggestion.strategy =
               RuleTable(analysis, metadata, config)[FirstRule(analysis, metadata, config)][2]
        /\ 5 * analysis.outlier_percentage.n > analysis.outlier_percentage.d
               => suggestion.strategy = LEAVE_AS_IS
        /\ (metadata.unique_flag /\ analysis.outlier_count > 0)
               => suggestion.strategy = LEAVE_AS_IS

\* A unique-identifier column with outliers, at most 20% of them, whose lower
\* fence is below the declared minimum: rule 3 decides before rule 5.
C1_Witness ==
    /\ pc = "returned"
    /\ metadata.unique_flag
    /\ metadata.data_type = "integer"
    /\ analysis.outlier_count > 0
    /\ analysis.outlier_percentage = Rat(4, 100)
    /\ BelowMin(analysis, metadata)
    /\ FirstRule(analysis, metadata, config) = 3
    /\ suggestion.strategy = LEAVE_AS_IS

\* C6 as stated: declared business bounds with the statistical lower bound
\* below the declared minimum give CAP_TO_BOUNDS, provided there are
\* outliers and they are at most 20% of the values.
C6_AsStated ==
    (/\ pc = "returned"
     /\ BelowMin(analysis, metadata)
     /\ analysis.outlier_count > 0
     /\ 5 * analysis.outlier_percentage.n <= analysis.outlier_percentage.d)
        => suggestion.strategy = CAP_TO_BOUNDS

\* C6 (amended): the same, provided also that the column is not a unique
\* identifier and its declared type is not categorical.
C6_BusinessViolationCaps ==
    (/\ pc = "returned"
     /\ BelowMin(analysis, metadata)
     /\ analysis.outlier_count > 0
     /\ 5 * analysis.outlier_percentage.n <= analysis.outlier_percentage.d
     /\ ~metadata.unique_flag
     /\ metadata.data_type # "categorical")
        => suggestion.strategy = CAP_TO_BOUNDS

\* Declared bounds [0, 100], lower fence -10, upper fence inside, 15% of
\* outliers with a threshold of 5%: only the business rule can cap.
C6_Witness ==
    /\ pc = "returned"
    /\ metadata.min_value = Num(0)
    /\ metadata.max_value = Num(100)
    /\ analysis.lower_bound = Num(-10)
    /\ analysis.upper_bound = Num(50)
    /\ analysis.outlier_count > 0
    /\ analysis.outlier_percentage = Rat(15, 100)
    /\ config.outlier_threshold = Rat(5, 100)
    /\ ~metadata.unique_flag
    /\ metadata.data_type = "float"
    /\ suggestion.strategy = CAP_TO_BOUNDS
    /\ suggestion.rationale = "Outliers violate business rules"

---------------------------------------------------------------------------
(* The contract of the orchestrator *)

NumericType == metadata.data_type \in {"integer", "float"}

\* The outliers the detector's contract yields for the column, all of them.
FullOutliers ==
    LET xs == NonMissing(series)
        mh == Halves(config.iqr_multiplier)
    IN  IF NumericType /\ xs # <<>>
        THEN Outside(xs, Lower8(xs, mh), Upper8(xs, mh))
        ELSE <<>>

\* C2: a result with outlier_count = 0 has percentage 0.0 and strategy
\* LEAVE_AS_IS.
C2_NoOutliersLeaveAsIs ==
    (pc = "returned" /\ result.outlier_count = 0) =>
        /\ result.outlier_percentage = Num(0)
        /\ result.handling_strategy = LEAVE_AS_IS

\* A numeric, non-unique column with values and declared bounds above its
\* fences, no outlier and a threshold above 0%: only rule 1 keeps it as is.
C2_Witness ==
    /\ pc = "returned"
    /\ NumericType
    /\ ~metadata.unique_flag
    /\ Len(NonMissing(series)) >= 5
    /\ BelowMin(result, metadata)
    /\ result.outlier_count = 0
    /\ result.handling_strategy = LEAVE_AS_IS

\* C4: for a numeric column the percentage is outlier_count over the number
\* of non-missing cells, 0.0 when there is none, and lies in [0, 1].
C4_Percentage ==
    (pc = "returned" /\ NumericType) =>
        LET total == Len(NonMissing(series))
            p     == result.outlier_percentage
        IN  /\ p.k = "num"
            /\ total = 0 => p = Num(0)
            /\ total > 0 => p.n * total = result.outlier_count * p.d
            /\ 0 <= p.n /\ p.n <= p.d
            /\ result.outlier_count <= total

\* A numeric column with missing cells and outliers.
C4_Witness ==
    /\ pc = "returned"
    /\ NumericType
    /\ \E i \in 1..Len(series) : series[i] = NaN
    /\ result.outlier_count = 1
    /\ result.outlier_percentage = Rat(1, 10)
    /\ Len(series) > 10

\* C5: a declared type other than integer and float gives zero outliers,
\* percentage 0.0, both bounds None, no outlier values and LEAVE_AS_IS,
\* whatever the column, the unique flag, the declared bounds and the
\* configuration.
C5_NonNumericSkipped ==
    (pc = "returned" /\ ~NumericType) =>
        /\ result.outlier_count = 0
        /\ result.outlier_percentage = Num(0)
        /\ result.lower_bound = None
        /\ result.upper_bound = None
        /\ result.outlier_values = <<>>
        /\ result.handling_strategy = LEAVE_AS_IS

\* A column of type "other" in which detection would find an outlier.
C5_Witness ==
    /\ pc = "returned"
    /\ metadata.data_type = "other"
    /\ metadata.min_value # None
    /\ detect_outliers_iqr(series, config.iqr_multiplier).outliers # <<>>
    /\ result.outlier_count = 0
    /\ result.lower_bound = None

\* C8: analyze_outliers never raises, and what it returns carries one of
\* the three strategies.
C8_TotalAndClosed ==
    /\ pc # "raised"
    /\ pc = "returned" =>
        /\ result.exc = ""
        /\ result.handling_strategy \in OutlierHandling

\* A call that reaches the comparisons of the fences with both declared
\* bounds and returns.
C8_Witness ==
    /\ pc = "returned"
    /\ metadata.min_value # None
    /\ metadata.max_value # None
    /\ result.handling_strategy = CAP_TO_BOUNDS
    /\ result.rationale = "Outliers violate business rules"

\* C10: CONVERT_TO_NAN is returned only with outliers, a column that is not
\* a unique identifier, no declared bound violated and
\* outlier_threshold <= percentage < 0.10; so never with a threshold of 10%
\* or more.
C10_ConvertOnlyInBand ==
    (pc = "returned" /\ result.handling_strategy = CONVERT_TO_NAN) =>
        LET p == result.outlier_percentage
            t == config.outlier_threshold
        IN  /\ result.outlier_count > 0
            /\ ~metadata.unique_flag
            /\ ~BelowMin(result, metadata)
            /\ ~AboveMax(result, metadata)
            /\ t.n * p.d <= p.n * t.d
            /\ 10 * p.n < p.d
            /\ 10 * t.n < t.d

\* One outlier among eleven values with a threshold of 5%.
C10_Witness ==
    /\ pc = "returned"
    /\ result.handling_strategy = CONVERT_TO_NAN
    /\ result.outlier_percentage = Rat(1, 11)
    /\ config.outlier_threshold = Rat(5, 100)
    /\ metadata.min_value # None

\* C3: outlier_values holds at most 10 values, the first min(10, n) of the n
\* detected outliers in column order, while outlier_count is n and the
\* percentage is n over the non-missing total.
C3_TruncatedSample ==
    pc = "returned" =>
        LET n     == Len(FullOutliers)
            total == Len(NonMissing(series))
        IN  /\ Len(result.outlier_values) <= 10
            /\ result.outlier_values =
                   SubSeq(FullOutliers, 1, IF n < 10 THEN n ELSE 10)
            /\ result.outlier_count = n
            /\ n > 0 => result.outlier_percentage = Rat(n, total)

\* Twelve outliers, low and high alternating, of which ten are stored.
C3_Witness ==
    /\ pc = "returned"
    /\ result.outlier_count = 12
    /\ Len(result.outlier_values) = 10
    /\ result.outlier_values[1] # result.outlier_values[2]
    /\ result.outlier_percentage = Rat(1, 2)

===========================================================================
